---- MODULE Spec2Model ----
(***************************************************************************)
(* Model of github.com/osirisgate/golang-core: the status-code registry    *)
(* (package status) and the structured error CoreException (package        *)
(* exception) with its accessors and its two serialisations.               *)
(*                                                                         *)
(* Go maps are reference values: the model keeps them on a heap, and a     *)
(* map[string]interface{} value is the index of its heap cell (0 is the    *)
(* nil map).  Interface values carry their dynamic type, because the code  *)
(* decides by type assertion.                                              *)
(***************************************************************************)
EXTENDS Integers, Sequences, FiniteSets, TLC

(* ----------------------------- bounds --------------------------------- *)
MaxEntries == 2     \* key/value pairs the caller writes, all maps together

(* ------------------- interface{} values (dynamic type) ---------------- *)
StringType == "string"
IntType == "int"
MapType == "map[string]interface{}"
StrMapType == "map[string]string"
NilType == "nil"

NilRef == 0         \* the nil map
FreshRef == -1      \* a map built by the callee, held by nobody else

StrVal(s) == [t |-> StringType, s |-> s, n |-> 0]
IntVal(n) == [t |-> IntType, s |-> "", n |-> n]
MapVal(r) == [t |-> MapType, s |-> "", n |-> r]
StrMapVal == [t |-> StrMapType, s |-> "", n |-> 0]
Nil == [t |-> NilType, s |-> "", n |-> 0]

EmptyMap == [k \in {} |-> Nil]

(* ------------------------- package status ----------------------------- *)
ERROR == "error"
SUCCESS == "success"

\* type Status string: a value of the type, made by the conversion Status(v)
Status(value) == [Status |-> value]

\* func (s Status) GetValue() string
StatusGetValue(s) == s.Status

\* mutant: only the two named values are kept, any other becomes ERROR
NewStatusKnownOnly(value) ==
  IF value \in {SUCCESS, ERROR} THEN Status(value) ELSE Status(ERROR)

\* func NewStatus(value string) Status
NewStatus(value) == Status(value)

BadRequest == 400
NotFound == 404
UnprocessableContent == 422
InternalServerError == 500

statusDescriptions ==
  [c \in {100, 101, 102, 103,
          200, 201, 202, 203, 204, 205, 206, 207, 208, 226,
          300, 301, 302, 303, 304, 305, 307, 308,
          400, 401, 402, 403, 404, 405, 406, 407, 408, 409, 410, 411, 412,
          413, 414, 415, 416, 417, 418, 421, 422, 423, 424, 425, 426, 428,
          429, 431, 451,
          500, 501, 502, 503, 504, 505, 506, 507, 508, 510, 511} |->
     CASE c = 100 -> "Continue"
       [] c = 101 -> "Switching Protocols"
       [] c = 102 -> "Processing"
       [] c = 103 -> "Early Hints"
       [] c = 200 -> "OK"
       [] c = 201 -> "Created"
       [] c = 202 -> "Accepted"
       [] c = 203 -> "Non-Authoritative Information"
       [] c = 204 -> "No Content"
       [] c = 205 -> "Reset Content"
       [] c = 206 -> "Partial Content"
       [] c = 207 -> "Multi-Status"
       [] c = 208 -> "Already Reported"
       [] c = 226 -> "IM Used"
       [] c = 300 -> "Multiple Choices"
       [] c = 301 -> "Moved Permanently"
       [] c = 302 -> "Found"
       [] c = 303 -> "See Other"
       [] c = 304 -> "Not Modified"
       [] c = 305 -> "Use Proxy"
       [] c = 307 -> "Temporary Redirect"
       [] c = 308 -> "Permanent Redirect"
       [] c = 400 -> "Bad Request"
       [] c = 401 -> "Unauthorized"
       [] c = 402 -> "Payment Required"
       [] c = 403 -> "Forbidden"
       [] c = 404 -> "Not Found"
       [] c = 405 -> "Method Not Allowed"
       [] c = 406 -> "Not Acceptable"
       [] c = 407 -> "Proxy Authentication Required"
       [] c = 408 -> "Request Timeout"
       [] c = 409 -> "Conflict"
       [] c = 410 -> "Gone"
       [] c = 411 -> "Length Required"
       [] c = 412 -> "Precondition Failed"
       [] c = 413 -> "Content Too Large"
       [] c = 414 -> "URI Too Long"
       [] c = 415 -> "Unsupported Media Type"
       [] c = 416 -> "Range Not Satisfiable"
       [] c = 417 -> "Expectation Failed"
       [] c = 418 -> "I'm a teapot"
       [] c = 421 -> "Misdirected Request"
       [] c = 422 -> "Unprocessable Content"
       [] c = 423 -> "Locked"
       [] c = 424 -> "Failed Dependency"
       [] c = 425 -> "Too Early"
       [] c = 426 -> "Upgrade Required"
       [] c = 428 -> "Precondition Required"
       [] c = 429 -> "Too Many Requests"
       [] c = 431 -> "Request Header Fields Too Large"
       [] c = 451 -> "Unavailable For Legal Reasons"
       [] c = 500 -> "Internal Server Error"
       [] c = 501 -> "Not Implemented"
       [] c = 502 -> "Bad Gateway"
       [] c = 503 -> "Service Unavailable"
       [] c = 504 -> "Gateway Timeout"
       [] c = 505 -> "HTTP Version Not Supported"
       [] c = 506 -> "Variant Also Negotiates"
       [] c = 507 -> "Insufficient Storage"
       [] c = 508 -> "Loop Detected"
       [] c = 510 -> "Not Extended"
       [] c = 511 -> "Network Authentication Required"]

UnknownStatusCode == "Unknown Status Code"

\* the values of the package's named StatusCode constants
StatusCodeConstants ==
  {100, 101, 102, 103,
   200, 201, 202, 203, 204, 205, 206, 207, 208, 226,
   300, 301, 302, 303, 304, 305, 307, 308,
   400, 401, 402, 403, 404, 405, 406, 407, 408, 409, 410, 411, 412, 413,
   414, 415, 416, 417, 418, 421, 422, 423, 424, 425, 426, 428, 429, 431, 451,
   500, 501, 502, 503, 504, 505, 506, 507, 508, 510, 511}

\* table: the package-level variable statusDescriptions, as it is now;
\* texts: the maps GetStatusTexts has returned to the callers
VARIABLES table, texts

\* func (c StatusCode) GetValue() int
GetValue(c) == c

\* mutant: an unregistered code yields no text at all
GetDescriptionNoSentinel(c) ==
  IF c \in DOMAIN table THEN table[c] ELSE ""

\* func (c StatusCode) GetDescription() string
GetDescription(c) ==
  IF c \in DOMAIN table THEN table[c]      \* desc, exists := statusDescriptions[c]
  ELSE UnknownStatusCode

\* mutant: an unknown value is converted and returned with false
NewStatusCodeKeepsValue(value) ==
  [code |-> value, ok |-> value \in DOMAIN table]

\* mutant: any value of the classes 1xx to 5xx is taken for a known code
NewStatusCodeRangeCheck(value) ==
  IF value >= 100 /\ value <= 599 THEN [code |-> value, ok |-> TRUE]
  ELSE [code |-> 0, ok |-> FALSE]

\* func NewStatusCode(value int) (StatusCode, bool)
NewStatusCode(value) ==
  LET s == value                             \* s := StatusCode(value)
  IN  IF s \in DOMAIN table THEN [code |-> s, ok |-> TRUE]
      ELSE [code |-> 0, ok |-> FALSE]

\* a map[StatusCode]string a caller holds: a map of its own with contents m,
\* or (shared) the package's table itself
OwnTexts(m) == [shared |-> FALSE, m |-> m]
SharedTexts == [shared |-> TRUE, m |-> <<>>]
TextsView(tbl, t) == IF t.shared THEN tbl ELSE t.m

\* mutant: the internal map is handed out
GetStatusTextsNoCopy == SharedTexts

\* func GetStatusTexts() map[StatusCode]string
GetStatusTexts ==
  LET copyMap == [key \in DOMAIN table |-> table[key]]
  IN  OwnTexts(copyMap)

(* ----------------------------- Go maps -------------------------------- *)
\* the contents of the map behind reference r; a nil map reads as empty
Contents(h, r) == IF r = NilRef THEN EmptyMap ELSE h[r]

\* m[k] read as a single value: the zero interface value when k is absent
Index(m, k) == IF k \in DOMAIN m THEN m[k] ELSE Nil

\* m[k] = v
Store(m, k, v) == [x \in DOMAIN m \cup {k} |-> IF x = k THEN v ELSE m[x]]

\* delete(m, k), on the heap; a no-op on the nil map and on an absent key
Delete(h, r, k) ==
  IF r = NilRef THEN h
  ELSE [h EXCEPT ![r] = [x \in DOMAIN h[r] \ {k} |-> h[r][x]]]

(* ------------------------- package exception -------------------------- *)
\* type CoreException struct { Message; StatusCode; Errors; StackTrace }
CoreException(message, statusCode, errors, stackTrace) ==
  [Message |-> message, StatusCode |-> statusCode, Errors |-> errors,
   StackTrace |-> stackTrace]

\* mutant: the consumed "message" entry is left in the map
NewInstanceKeepsKey(h, errors, defaultStatusCode, stack) ==
  LET v == Index(Contents(h, errors), "message")
      ok == v.t = StringType
      message == IF ok THEN v.s ELSE ""
  IN  [exc |-> CoreException(
                 IF ~ok \/ message = "" THEN GetDescription(defaultStatusCode)
                 ELSE message,
                 defaultStatusCode, errors, stack),
       heap |-> h]

\* mutant: the "message" key is deleted whenever the map is not nil
NewInstanceAlwaysDeletes(h, errors, defaultStatusCode, stack) ==
  LET v == Index(Contents(h, errors), "message")
      ok == v.t = StringType
      message == IF ok THEN v.s ELSE ""
  IN  [exc |-> CoreException(
                 IF ~ok \/ message = "" THEN GetDescription(defaultStatusCode)
                 ELSE message,
                 defaultStatusCode, errors, stack),
       heap |-> Delete(h, errors, "message")]

\* mutant: the exception gets a map of its own, holding only "details"
NewInstanceDropsEntries(h, errors, defaultStatusCode, stack) ==
  LET v == Index(Contents(h, errors), "message")
      ok == v.t = StringType
      message == IF ok THEN v.s ELSE ""
      kept == IF errors = NilRef THEN h
              ELSE [h EXCEPT ![errors] =
                      [x \in DOMAIN h[errors] \cap {"details"} |-> h[errors][x]]]
  IN  [exc |-> CoreException(
                 IF ~ok \/ message = "" THEN GetDescription(defaultStatusCode)
                 ELSE message,
                 defaultStatusCode, errors, stack),
       heap |-> kept]

\* mutant: the status code is read from the details when they carry one
NewInstanceCodeFromDetails(h, errors, defaultStatusCode, stack) ==
  LET v == Index(Contents(h, errors), "message")
      ok == v.t = StringType
      message == IF ok THEN v.s ELSE ""
      sc == Index(Contents(h, errors), "status_code")
      code == IF sc.t = IntType THEN sc.n ELSE defaultStatusCode
  IN  IF ~ok \/ message = ""
      THEN [exc |-> CoreException(GetDescription(defaultStatusCode), code,
                                  errors, stack),
            heap |-> h]
      ELSE [exc |-> CoreException(message, code, errors, stack),
            heap |-> Delete(h, errors, "message")]

\* mutant: the stack is not captured
NewInstanceNoStack(h, errors, defaultStatusCode, stack) ==
  LET v == Index(Contents(h, errors), "message")
      ok == v.t = StringType
      message == IF ok THEN v.s ELSE ""
  IN  IF ~ok \/ message = ""
      THEN [exc |-> CoreException(GetDescription(defaultStatusCode),
                                  defaultStatusCode, errors, ""),
            heap |-> h]
      ELSE [exc |-> CoreException(message, defaultStatusCode, errors, ""),
            heap |-> Delete(h, errors, "message")]

\* mutant: the exception keeps a copy of the map and the caller's map is
\* left as it was
NewInstanceCopiesMap(h, errors, defaultStatusCode, stack) ==
  LET v == Index(Contents(h, errors), "message")
      ok == v.t = StringType
      message == IF ok THEN v.s ELSE ""
      copy == Len(h) + 1
      h2 == Append(h, Contents(h, errors))
  IN  IF ~ok \/ message = ""
      THEN [exc |-> CoreException(GetDescription(defaultStatusCode),
                                  defaultStatusCode, copy, stack),
            heap |-> h2]
      ELSE [exc |-> CoreException(message, defaultStatusCode, copy, stack),
            heap |-> Delete(h2, copy, "message")]

\* func NewInstance(errors, defaultStatusCode) *CoreException
\* h is the heap at the call, stack what debug.Stack() returns there; the
\* result is the new exception and the heap the call leaves behind.
NewInstance(h, errors, defaultStatusCode, stack) ==
  LET v == Index(Contents(h, errors), "message")
      ok == v.t = StringType                     \* errors["message"].(string)
      message == IF ok THEN v.s ELSE ""
  IN  IF ~ok \/ message = ""
      THEN [exc |-> CoreException(GetDescription(defaultStatusCode),
                                  defaultStatusCode, errors, stack),
            heap |-> h]
      ELSE [exc |-> CoreException(message, defaultStatusCode, errors, stack),
            heap |-> Delete(h, errors, "message")]

\* mutant: the variant copies the detail map along with the struct
NewBadFunctionCallCopiesMap(h, errors, stack) ==
  LET base == NewInstance(h, errors, BadRequest, stack)
      copy == Len(base.heap) + 1
  IN  [exc |-> [base.exc EXCEPT !.Errors = copy],
       heap |-> Append(base.heap, Contents(base.heap, errors))]

\* func NewBadFunctionCall(errors) *BadFunctionCall: the embedded
\* CoreException is a copy of *base, field by field; its Errors field is
\* the same map
NewBadFunctionCall(h, errors, stack) ==
  LET base == NewInstance(h, errors, BadRequest, stack)
  IN  [exc |-> CoreException(base.exc.Message, base.exc.StatusCode,
                             base.exc.Errors, base.exc.StackTrace),
       heap |-> base.heap]

\* return &X{CoreException: *base}: the variant embeds a copy of *base,
\* field by field
Embed(base) ==
  [exc |-> CoreException(base.exc.Message, base.exc.StatusCode,
                         base.exc.Errors, base.exc.StackTrace),
   heap |-> base.heap]

\* func NewBadMethodCall(errors) *BadMethodCall
NewBadMethodCall(h, errors, stack) ==
  Embed(NewInstance(h, errors, BadRequest, stack))

\* func NewDomain(errors) *Domain
NewDomain(h, errors, stack) ==
  Embed(NewInstance(h, errors, BadRequest, stack))

\* func NewUnexpectedValue(errors) *UnexpectedValue
NewUnexpectedValue(h, errors, stack) ==
  Embed(NewInstance(h, errors, UnprocessableContent, stack))

\* func NewOutOfRange(errors) *OutOfRange
NewOutOfRange(h, errors, stack) ==
  Embed(NewInstance(h, errors, BadRequest, stack))

\* func NewInvalidArgument(errors) *InvalidArgument
NewInvalidArgument(h, errors, stack) ==
  Embed(NewInstance(h, errors, BadRequest, stack))

\* func NewLength(errors) *Length
NewLength(h, errors, stack) ==
  Embed(NewInstance(h, errors, BadRequest, stack))

\* func NewLogic(errors) *Logic
NewLogic(h, errors, stack) ==
  Embed(NewInstance(h, errors, BadRequest, stack))

\* func NewRequestParseBody(errors) *RequestParseBody
NewRequestParseBody(h, errors, stack) ==
  Embed(NewInstance(h, errors, BadRequest, stack))

\* mutant: Overflow is bound to BadRequest like its neighbour in the file
NewOverflowBadRequest(h, errors, stack) ==
  Embed(NewInstance(h, errors, BadRequest, stack))

\* func NewOverflow(errors) *Overflow
NewOverflow(h, errors, stack) ==
  Embed(NewInstance(h, errors, UnprocessableContent, stack))

\* func NewRuntime(errors) *Runtime
NewRuntime(h, errors, stack) ==
  Embed(NewInstance(h, errors, InternalServerError, stack))

\* func NewUnderflow(errors) *Underflow
NewUnderflow(h, errors, stack) ==
  Embed(NewInstance(h, errors, InternalServerError, stack))

\* func NewRange(errors) *Range
NewRange(h, errors, stack) ==
  Embed(NewInstance(h, errors, UnprocessableContent, stack))

\* func NewOutOfBounds(errors) *OutOfBounds
NewOutOfBounds(h, errors, stack) ==
  Embed(NewInstance(h, errors, UnprocessableContent, stack))

\* func NewError(errors) *Error
NewError(h, errors, stack) ==
  Embed(NewInstance(h, errors, InternalServerError, stack))

\* the named variants and their constructors
Variants == {"BadFunctionCall", "BadMethodCall", "Domain", "UnexpectedValue",
             "OutOfRange", "InvalidArgument", "Length", "Logic",
             "RequestParseBody", "Overflow", "Runtime", "Underflow", "Range",
             "OutOfBounds", "Error"}
NewVariant(x, h, errors, stack) ==
  CASE x = "BadFunctionCall" -> NewBadFunctionCall(h, errors, stack)
    [] x = "BadMethodCall" -> NewBadMethodCall(h, errors, stack)
    [] x = "Domain" -> NewDomain(h, errors, stack)
    [] x = "UnexpectedValue" -> NewUnexpectedValue(h, errors, stack)
    [] x = "OutOfRange" -> NewOutOfRange(h, errors, stack)
    [] x = "InvalidArgument" -> NewInvalidArgument(h, errors, stack)
    [] x = "Length" -> NewLength(h, errors, stack)
    [] x = "Logic" -> NewLogic(h, errors, stack)
    [] x = "RequestParseBody" -> NewRequestParseBody(h, errors, stack)
    [] x = "Overflow" -> NewOverflow(h, errors, stack)
    [] x = "Runtime" -> NewRuntime(h, errors, stack)
    [] x = "Underflow" -> NewUnderflow(h, errors, stack)
    [] x = "Range" -> NewRange(h, errors, stack)
    [] x = "OutOfBounds" -> NewOutOfBounds(h, errors, stack)
    [] x = "Error" -> NewError(h, errors, stack)

\* a map a method returns: a reference into the heap, or (ref = FreshRef) a
\* map literal the method built, with contents m
Shared(r) == [ref |-> r, m |-> EmptyMap]
Fresh(m) == [ref |-> FreshRef, m |-> m]
View(h, res) == IF res.ref = FreshRef THEN res.m ELSE Contents(h, res.ref)

\* func (e CoreException) Error() string
Error(e) == e.Message

\* mutant: the code of the documentation's example output
GetStatusCodeBadRequest(e) == GetValue(BadRequest)

\* func (e CoreException) GetStatusCode() int
GetStatusCode(e) == GetValue(e.StatusCode)

\* func (e CoreException) GetErrors() map[string]interface{}
GetErrors(e) == Shared(e.Errors)

\* mutant: any mapping under "details" is accepted, and a missing one
\* yields the detail bag itself
GetDetailsUnchecked(h, e) ==
  LET v == Index(Contents(h, e.Errors), "details")
  IN  IF v.t \in {MapType, StrMapType} THEN Shared(v.n) ELSE Shared(e.Errors)

\* mutant: the type assertion is unchecked, and panics where it fails: no
\* map is returned
GetDetailsMustBeMap(h, e) ==
  LET v == Index(Contents(h, e.Errors), "details")
  IN  IF v.t = MapType THEN Shared(v.n)
      ELSE [ref |-> FreshRef - 1, m |-> EmptyMap]

\* func (e CoreException) GetDetails() map[string]interface{}
GetDetails(h, e) ==
  LET v == Index(Contents(h, e.Errors), "details")
  IN  IF v.t = MapType THEN Shared(v.n) ELSE Fresh(EmptyMap)

\* mutant: the nested message is read from the detail bag, not from "details"
GetDetailsMessageTopLevel(h, e) ==
  LET v == Index(Contents(h, e.Errors), "error")
  IN  IF v.t = StringType THEN v.s ELSE ""

\* func (e CoreException) GetDetailsMessage() string
GetDetailsMessage(h, e) ==
  LET details == View(h, GetDetails(h, e))
      v == Index(details, "error")
  IN  IF v.t = StringType THEN v.s ELSE ""

\* mutant: the detail bag is flattened into the log record
GetErrorsForLogFlattened(h, e) ==
  LET fixed == [message |-> StrVal(e.Message),
                status_code |-> IntVal(GetValue(e.StatusCode)),
                errors |-> MapVal(e.Errors),
                stack_trace |-> StrVal(e.StackTrace)]
      bag == Contents(h, e.Errors)
  IN  Fresh([k \in DOMAIN fixed \cup DOMAIN bag |->
               IF k \in DOMAIN bag THEN bag[k] ELSE fixed[k]])

\* func (e CoreException) GetErrorsForLog() map[string]interface{}
GetErrorsForLog(h, e) ==
  Fresh([message |-> StrVal(e.Message),
         status_code |-> IntVal(GetValue(e.StatusCode)),
         errors |-> MapVal(e.Errors),
         stack_trace |-> StrVal(e.StackTrace)])

\* mutant: the stack is taken again at every call
GetStackTraceRecaptured(e) == "goroutine 1 [running]:\nGetStackTrace"

\* func (e CoreException) GetStackTrace() string
GetStackTrace(e) == e.StackTrace

\* mutant: the fixed fields are written after the detail bag
FormatFixedWins(h, e) ==
  LET fixed == [status |-> StrVal(ERROR),
                error_code |-> IntVal(GetValue(e.StatusCode)),
                message |-> StrVal(e.Message)]
      bag == Contents(h, e.Errors)
  IN  Fresh([k \in DOMAIN fixed \cup DOMAIN bag |->
               IF k \in DOMAIN fixed THEN fixed[k] ELSE bag[k]])

\* mutant: the detail bag is nested under "errors" instead of flattened
FormatNested(h, e) ==
  Fresh([status |-> StrVal(ERROR),
         error_code |-> IntVal(GetValue(e.StatusCode)),
         message |-> StrVal(e.Message),
         errors |-> MapVal(e.Errors)])

\* mutant: the fixed keys are filled in and the detail bag itself returned
FormatReturnsBag(h, e) ==
  LET formatted == [status |-> StrVal(ERROR),
                    error_code |-> IntVal(GetValue(e.StatusCode)),
                    message |-> StrVal(e.Message)]
  IN  IF e.Errors # NilRef THEN Shared(e.Errors) ELSE Fresh(formatted)

\* mutant: the general status is emitted under "enum"
FormatEnumKey(h, e) ==
  LET formatted == [enum |-> StrVal(ERROR),
                    error_code |-> IntVal(GetValue(e.StatusCode)),
                    message |-> StrVal(e.Message)]
  IN  IF e.Errors # NilRef
      THEN LET bag == h[e.Errors]
           IN  Fresh([k \in DOMAIN formatted \cup DOMAIN bag |->
                        IF k \in DOMAIN bag THEN bag[k] ELSE formatted[k]])
      ELSE Fresh(formatted)

\* func (e CoreException) Format() map[string]interface{}
Format(h, e) ==
  LET formatted == [status |-> StrVal(ERROR),
                    error_code |-> IntVal(GetValue(e.StatusCode)),
                    message |-> StrVal(e.Message)]
  IN  IF e.Errors # NilRef
      THEN LET bag == h[e.Errors]     \* for key, value := range e.Errors
           IN  Fresh([k \in DOMAIN formatted \cup DOMAIN bag |->
                        IF k \in DOMAIN bag THEN bag[k] ELSE formatted[k]])
      ELSE Fresh(formatted)

(* --------------------------- the state machine ------------------------ *)
\* heap: the caller's maps, errorsMap at 1 and a second map to nest at 2;
\* exc: the exceptions constructed so far; ret: what the last call returned
VARIABLES heap, exc, ret
vars == <<heap, exc, ret, table, texts>>

\* keys the caller writes: the ones the code looks up or emits, and a free one
Keys == {"message", "details", "error", "status", "error_code",
         "status_code", "errors", "stack_trace", "field"}

Refs == 0..Len(heap)

\* values the caller writes under a key: for the keys the code inspects, one
\* value of every kind the code tells apart; one value for the others
ValuesFor(k) ==
  CASE k = "message" -> {StrVal(""), StrVal("Validation failed."), IntVal(7)}
    [] k = "details" -> {MapVal(r) : r \in Refs} \cup {StrMapVal}
    [] k = "error" -> {StrVal("email_format_error"), IntVal(7)}
    [] k = "status" -> {StrVal("pending")}
    [] k \in {"error_code", "status_code"} -> {IntVal(7)}
    [] OTHER -> {StrVal("some_value")}

\* default codes the callers pass: two registered codes and an unregistered one
Codes == {BadRequest, NotFound, 999}

\* what debug.Stack() can return: it depends on the call site, and always
\* starts with the goroutine header
Stacks == {"goroutine 1 [running]:", "goroutine 7 [running]:"}

RECURSIVE Entries(_, _)
Entries(h, i) == IF i = 0 THEN 0
                 ELSE Cardinality(DOMAIN h[i]) + Entries(h, i - 1)

NoRet == [op |-> "none", e |-> 0, v |-> Nil, m |-> EmptyMap]
RetString(op, i, str) == [op |-> op, e |-> i, v |-> StrVal(str), m |-> EmptyMap]
RetInt(op, i, n) == [op |-> op, e |-> i, v |-> IntVal(n), m |-> EmptyMap]
RetMap(op, i, res) == [op |-> op, e |-> i, v |-> MapVal(res.ref), m |-> res.m]
\* the contents of the map the last call returned
RetView == IF ret.v.n = FreshRef THEN ret.m ELSE Contents(heap, ret.v.n)

Init ==
  /\ heap = <<EmptyMap, EmptyMap>>
  /\ exc = <<>>
  /\ ret = NoRet
  /\ table = statusDescriptions
  /\ texts = <<>>

\* the caller fills a map before it raises: m[k] = v
Put(r, k, v) ==
  /\ exc = <<>>
  /\ r \in 1..Len(heap)
  /\ k \in DOMAIN heap[r] \/ Entries(heap, Len(heap)) < MaxEntries
  /\ heap' = [heap EXCEPT ![r] = Store(heap[r], k, v)]
  /\ UNCHANGED <<exc, ret, table, texts>>

\* the caller: e := exception.NewInstance(errors, code)
CallNewInstance(errors, code, stack) ==
  /\ exc = <<>>
  /\ LET res == NewInstance(heap, errors, code, stack)
     IN  /\ exc' = Append(exc, res.exc)
         /\ heap' = res.heap
  /\ ret' = NoRet
  /\ UNCHANGED <<table, texts>>

CallError(i) ==
  /\ ret' = RetString("Error", i, Error(exc[i]))
  /\ UNCHANGED <<heap, exc, table, texts>>

CallGetStatusCode(i) ==
  /\ ret' = RetInt("GetStatusCode", i, GetStatusCode(exc[i]))
  /\ UNCHANGED <<heap, exc, table, texts>>

\* mutant: GetErrors returns a copy of the detail bag
CallGetErrorsCopy(i) ==
  /\ ret' = RetMap("GetErrors", i, Fresh(Contents(heap, exc[i].Errors)))
  /\ UNCHANGED <<heap, exc, table, texts>>

CallGetErrors(i) ==
  /\ ret' = RetMap("GetErrors", i, GetErrors(exc[i]))
  /\ UNCHANGED <<heap, exc, table, texts>>

\* mutant: GetDetails keeps the empty map it built in the detail bag
CallGetDetailsStoresDefault(i) ==
  LET e == exc[i]
      res == GetDetails(heap, e)
      new == Len(heap) + 1
  IN  IF res.ref = FreshRef /\ e.Errors # NilRef /\ Len(heap) < 3
      THEN /\ heap' = Append([heap EXCEPT ![e.Errors] =
                                Store(heap[e.Errors], "details", MapVal(new))],
                             EmptyMap)
           /\ ret' = RetMap("GetDetails", i, Shared(new))
           /\ UNCHANGED <<exc, table, texts>>
      ELSE /\ ret' = RetMap("GetDetails", i, res)
           /\ UNCHANGED <<heap, exc, table, texts>>

CallGetDetails(i) ==
  /\ ret' = RetMap("GetDetails", i, GetDetails(heap, exc[i]))
  /\ UNCHANGED <<heap, exc, table, texts>>

CallGetDetailsMessage(i) ==
  /\ ret' = RetString("GetDetailsMessage", i, GetDetailsMessage(heap, exc[i]))
  /\ UNCHANGED <<heap, exc, table, texts>>

CallGetErrorsForLog(i) ==
  /\ ret' = RetMap("GetErrorsForLog", i, GetErrorsForLog(heap, exc[i]))
  /\ UNCHANGED <<heap, exc, table, texts>>

CallGetStackTrace(i) ==
  /\ ret' = RetString("GetStackTrace", i, GetStackTrace(exc[i]))
  /\ UNCHANGED <<heap, exc, table, texts>>

CallFormat(i) ==
  /\ ret' = RetMap("Format", i, Format(heap, exc[i]))
  /\ UNCHANGED <<heap, exc, table, texts>>

Next ==
  \/ \E r \in Refs, k \in Keys : \E v \in ValuesFor(k) : Put(r, k, v)
  \/ \E r \in Refs, c \in Codes, st \in Stacks : CallNewInstance(r, c, st)
  \/ \E i \in 1..Len(exc) : CallError(i)
  \/ \E i \in 1..Len(exc) : CallGetStatusCode(i)
  \/ \E i \in 1..Len(exc) : CallGetErrors(i)
  \/ \E i \in 1..Len(exc) : CallGetDetails(i)
  \/ \E i \in 1..Len(exc) : CallGetDetailsMessage(i)
  \/ \E i \in 1..Len(exc) : CallGetErrorsForLog(i)
  \/ \E i \in 1..Len(exc) : CallGetStackTrace(i)
  \/ \E i \in 1..Len(exc) : CallFormat(i)

\* one caller fills its maps, raises one exception from them and reads it
Spec == Init /\ [][Next]_vars

(* ----------------------- the registry's callers ----------------------- *)
MaxTexts == 2       \* maps the callers obtain from GetStatusTexts

\* integers the callers ask about: registered codes, a gap between two
\* registered codes, zero, a negative value and the tests' 999
CallValues == {200, NotFound, InternalServerError, 306, 0, 0 - 1, 999}

\* keys and texts the callers write into the maps they were given
WriteKeys == {200, NotFound, 999}
WriteTexts == {"Not OK"}

BoolVal(b) == [t |-> "bool", s |-> "", n |-> IF b THEN 1 ELSE 0]

\* a caller: statusTexts := status.GetStatusTexts()
CallGetStatusTexts ==
  /\ Len(texts) < MaxTexts
  /\ texts' = Append(texts, GetStatusTexts)
  /\ ret' = [op |-> "GetStatusTexts", e |-> Len(texts) + 1, v |-> Nil,
             m |-> EmptyMap]
  /\ UNCHANGED <<heap, exc, table>>

\* a caller: statusTexts[k] = text, on a map GetStatusTexts gave it; the
\* write lands in the map that value refers to
WriteStatusText(j, k, text) ==
  /\ j \in 1..Len(texts)
  /\ IF texts[j].shared
     THEN /\ table' = [x \in DOMAIN table \cup {k} |->
                         IF x = k THEN text ELSE table[x]]
          /\ UNCHANGED texts
     ELSE /\ texts' = [texts EXCEPT ![j].m =
                         [x \in DOMAIN texts[j].m \cup {k} |->
                            IF x = k THEN text ELSE texts[j].m[x]]]
          /\ UNCHANGED table
  /\ UNCHANGED <<heap, exc, ret>>

\* a caller: delete(statusTexts, k)
DeleteStatusText(j, k) ==
  /\ j \in 1..Len(texts)
  /\ IF texts[j].shared
     THEN /\ table' = [x \in DOMAIN table \ {k} |-> table[x]]
          /\ UNCHANGED texts
     ELSE /\ texts' = [texts EXCEPT ![j].m =
                         [x \in DOMAIN texts[j].m \ {k} |-> texts[j].m[x]]]
          /\ UNCHANGED table
  /\ UNCHANGED <<heap, exc, ret>>

\* a caller: status.StatusCode(v).GetDescription()
CallGetDescription(v) ==
  /\ ret' = RetString("GetDescription", 0, GetDescription(v))
  /\ UNCHANGED <<heap, exc, table, texts>>

\* a caller: code, ok := status.NewStatusCode(v)
CallNewStatusCode(v) ==
  /\ LET res == NewStatusCode(v)
     IN  ret' = [op |-> "NewStatusCode", e |-> v, v |-> IntVal(res.code),
                 m |-> [ok |-> BoolVal(res.ok)]]
  /\ UNCHANGED <<heap, exc, table, texts>>

NextRegistry ==
  \/ CallGetStatusTexts
  \/ \E j \in 1..Len(texts), k \in WriteKeys, text \in WriteTexts :
       WriteStatusText(j, k, text)
  \/ \E j \in 1..Len(texts), k \in WriteKeys : DeleteStatusText(j, k)
  \/ \E v \in CallValues : CallGetDescription(v)
  \/ \E v \in CallValues : CallNewStatusCode(v)

\* callers of package status query the registry and write to their copies
SpecRegistry == Init /\ [][NextRegistry]_vars

(* ------------- callers that keep the maps they handed over ------------ *)
MaxExc == 2         \* exceptions raised

\* errorsMap := {"message": ..., "details": detailsMap} or without the
\* message, detailsMap := {"error": "email_format_error"}, and a map of
\* another caller
InitShared ==
  /\ heap \in {<<[message |-> StrVal("Validation failed."),
                  details |-> MapVal(2)],
                 [error |-> StrVal("email_format_error")],
                 [field |-> StrVal("some_value")]>>,
               <<[details |-> MapVal(2)],
                 [error |-> StrVal("email_format_error")],
                 [field |-> StrVal("some_value")]>>}
  /\ exc = <<>>
  /\ ret = NoRet
  /\ table = statusDescriptions
  /\ texts = <<>>

\* what the holders of a map write into it
SharedKeys == {"error"}
SharedValues == {StrVal("changed")}
SharedStacks == {"goroutine 1 [running]:"}

\* a caller: e := exception.NewInstance(errors, status.NotFound), with a
\* map it may have raised from before
Raise(errors, stack) ==
  /\ Len(exc) < MaxExc
  /\ LET res == NewInstance(heap, errors, NotFound, stack)
     IN  /\ exc' = Append(exc, res.exc)
         /\ heap' = res.heap
  /\ ret' = NoRet
  /\ UNCHANGED <<table, texts>>

\* a caller: e := exception.NewBadFunctionCall(errors)
CallNewBadFunctionCall(errors, stack) ==
  /\ Len(exc) < MaxExc
  /\ LET res == NewBadFunctionCall(heap, errors, stack)
     IN  /\ exc' = Append(exc, res.exc)
         /\ heap' = res.heap
  /\ ret' = NoRet
  /\ UNCHANGED <<table, texts>>

\* the caller, after it raised: errorsMap[k] = v on a map it still holds
WriteCaller(r, k, v) ==
  /\ exc # <<>>
  /\ r \in 1..Len(heap)
  /\ heap' = [heap EXCEPT ![r] = Store(heap[r], k, v)]
  /\ UNCHANGED <<exc, ret, table, texts>>

\* a reader: m := e.GetErrors() (or GetDetails, Format, ...); m[k] = v
WriteReturned(k, v) ==
  /\ ret.v.t = MapType
  /\ IF ret.v.n = FreshRef
     THEN /\ ret' = [ret EXCEPT !.m = Store(ret.m, k, v)]
          /\ UNCHANGED heap
     ELSE /\ ret.v.n # NilRef      \* a write to a nil map panics
          /\ heap' = [heap EXCEPT ![ret.v.n] = Store(heap[ret.v.n], k, v)]
          /\ UNCHANGED ret
  /\ UNCHANGED <<exc, table, texts>>

\* a reader: delete(m, k) on a map an accessor returned
DeleteReturned(k) ==
  /\ ret.v.t = MapType
  /\ IF ret.v.n = FreshRef
     THEN /\ ret' = [ret EXCEPT !.m = [x \in DOMAIN ret.m \ {k} |-> ret.m[x]]]
          /\ UNCHANGED heap
     ELSE /\ heap' = Delete(heap, ret.v.n, k)
          /\ UNCHANGED ret
  /\ UNCHANGED <<exc, table, texts>>

NextShared ==
  \/ \E r \in Refs, st \in SharedStacks : Raise(r, st)
  \/ \E r \in Refs, st \in SharedStacks : CallNewBadFunctionCall(r, st)
  \/ \E r \in Refs, k \in SharedKeys, v \in SharedValues : WriteCaller(r, k, v)
  \/ \E k \in SharedKeys, v \in SharedValues : WriteReturned(k, v)
  \/ \E k \in SharedKeys : DeleteReturned(k)
  \/ \E i \in 1..Len(exc) : CallGetErrors(i)
  \/ \E i \in 1..Len(exc) : CallGetDetails(i)
  \/ \E i \in 1..Len(exc) : CallFormat(i)

\* callers raise up to MaxExc exceptions, from maps they go on writing to,
\* and readers write to the maps the accessors hand out
SpecShared == InitShared /\ [][NextShared]_vars

(* ---------------- readers that write to what they got ---------------- *)
\* keys a reader deletes from a map it was handed
ReturnedKeys == {"error", "details"}
\* entries of a returned map that hold a map: got["errors"], got["details"]
NestedKeys == {"errors", "details"}

\* a reader: got[k0].(map[string]interface{})[k] = v, on a map literal an
\* accessor returned; the nested map is the exception's own
WriteNested(k0, k, v) ==
  /\ ret.v.t = MapType /\ ret.v.n = FreshRef
  /\ k0 \in DOMAIN ret.m
  /\ ret.m[k0].t = MapType
  /\ ret.m[k0].n # NilRef         \* a write to a nil map panics
  /\ heap' = [heap EXCEPT ![ret.m[k0].n] = Store(heap[ret.m[k0].n], k, v)]
  /\ UNCHANGED <<exc, ret, table, texts>>

\* a reader: delete(got[k0].(map[string]interface{}), k)
DeleteNested(k0, k) ==
  /\ ret.v.t = MapType /\ ret.v.n = FreshRef
  /\ k0 \in DOMAIN ret.m
  /\ ret.m[k0].t = MapType
  /\ heap' = Delete(heap, ret.m[k0].n, k)
  /\ UNCHANGED <<exc, ret, table, texts>>

NextReturned ==
  \/ \E r \in Refs, c \in Codes, st \in Stacks : CallNewInstance(r, c, st)
  \/ \E i \in 1..Len(exc) : CallGetErrors(i)
  \/ \E i \in 1..Len(exc) : CallGetDetails(i)
  \/ \E i \in 1..Len(exc) : CallGetErrorsForLog(i)
  \/ \E i \in 1..Len(exc) : CallFormat(i)
  \/ \E k \in SharedKeys, v \in SharedValues : WriteReturned(k, v)
  \/ \E k \in ReturnedKeys : DeleteReturned(k)
  \/ \E k0 \in NestedKeys, k \in SharedKeys, v \in SharedValues :
       WriteNested(k0, k, v)
  \/ \E k0 \in NestedKeys, k \in ReturnedKeys : DeleteNested(k0, k)

\* a caller raises one exception; readers take maps from its accessors and
\* write to them
SpecReturned == InitShared /\ [][NextReturned]_vars

(* ----------------------- callers of the variants ---------------------- *)
\* a caller: err := exception.NewX(errorsMap), for a variant X
CallNewVariant(x, errors, stack) ==
  /\ exc = <<>>
  /\ LET res == NewVariant(x, heap, errors, stack)
     IN  /\ exc' = Append(exc, res.exc)
         /\ heap' = res.heap
  /\ ret' = NoRet
  /\ UNCHANGED <<table, texts>>

NextVariants ==
  \/ \E x \in Variants, r \in Refs, st \in Stacks : CallNewVariant(x, r, st)
  \/ \E r \in Refs, c \in Codes, st \in Stacks : CallNewInstance(r, c, st)
  \/ \E i \in 1..Len(exc) : CallError(i)
  \/ \E i \in 1..Len(exc) : CallGetStatusCode(i)
  \/ \E i \in 1..Len(exc) : CallGetErrors(i)
  \/ \E i \in 1..Len(exc) : CallGetDetails(i)
  \/ \E i \in 1..Len(exc) : CallGetDetailsMessage(i)
  \/ \E i \in 1..Len(exc) : CallGetErrorsForLog(i)
  \/ \E i \in 1..Len(exc) : CallGetStackTrace(i)
  \/ \E i \in 1..Len(exc) : CallFormat(i)

\* a caller raises one exception, by NewInstance or by a variant, from the
\* maps it holds and reads it
SpecVariants == InitShared /\ [][NextVariants]_vars

(* ------------------------ callers of Status --------------------------- *)
\* strings the callers make a Status of: the two named values, the tests'
\* custom values, the empty string and near misses of the named values
StatusValues == {SUCCESS, ERROR, "pending", "processing", "", "Success",
                 "ERROR", "error ", " success", "errors", "succes",
                 "failure", "ok", "success\n"}

\* a caller: s := status.NewStatus(v)
CallNewStatus(v) ==
  /\ ret' = [op |-> "NewStatus", e |-> 0, v |-> StrVal(v),
             m |-> [status |-> NewStatus(v)]]
  /\ UNCHANGED <<heap, exc, table, texts>>

\* a caller: s := status.Status(v)
CallStatus(v) ==
  /\ ret' = [op |-> "Status", e |-> 0, v |-> StrVal(v),
             m |-> [status |-> Status(v)]]
  /\ UNCHANGED <<heap, exc, table, texts>>

\* a caller: s.GetValue(), on the Status it made by NewStatus or Status
CallStatusGetValue ==
  /\ "status" \in DOMAIN ret.m
  /\ ret.op \in {"NewStatus", "Status"}
  /\ ret' = [op |-> "Status.GetValue", e |-> 0,
             v |-> StrVal(StatusGetValue(ret.m.status)),
             m |-> [status |-> ret.m.status, of |-> ret.v,
                   from |-> ret.op]]
  /\ UNCHANGED <<heap, exc, table, texts>>

\* a caller: s == status.SUCCESS or s == status.ERROR; the untyped constant
\* is converted to Status
CallStatusEquals(c) ==
  /\ "status" \in DOMAIN ret.m
  /\ ret.op \in {"NewStatus", "Status"}
  /\ ret' = [op |-> "Status.==", e |-> 0,
             v |-> BoolVal(ret.m.status = Status(c)),
             m |-> [status |-> ret.m.status, of |-> ret.v,
                   from |-> ret.op, with |-> c]]
  /\ UNCHANGED <<heap, exc, table, texts>>

NextStatus ==
  \/ \E v \in StatusValues : CallNewStatus(v)
  \/ \E v \in StatusValues : CallStatus(v)
  \/ CallStatusGetValue
  \/ \E c \in {SUCCESS, ERROR} : CallStatusEquals(c)

\* callers make Status values and read and compare them
SpecStatus == Init /\ [][NextStatus]_vars

(* ------------------------------- claims ------------------------------- *)
\* the exception the last NewInstance call returned, and its detail bag
Last(x) == x[Len(x)]
Bag(h, e) == View(h, GetErrors(e))
\* the input's "message" entry is a non-empty string
Usable(m) == Index(m, "message").t = StringType /\ Index(m, "message").s # ""
FixedKeys == {"status", "error_code", "message"}
LogKeys == {"message", "status_code", "errors", "stack_trace"}

\* C1: when the details map holds a non-empty string M under "message",
\* NewInstance returns an exception with Error() = M, without a "message"
\* key in GetErrors(), and with every other key of the input still mapped
\* to the value it had.
C1_ExplicitMessage ==
  [][\A r \in Refs, c \in Codes, st \in Stacks :
       (CallNewInstance(r, c, st) /\ Usable(Contents(heap, r))) =>
         LET e == Last(exc')
             in == Contents(heap, r)
             out == Bag(heap', e)
         IN  /\ Error(e) = in["message"].s
             /\ "message" \notin DOMAIN out
             /\ \A k \in DOMAIN in \ {"message"} :
                  k \in DOMAIN out /\ out[k] = in[k]]_vars

C1_Witness ==
  /\ exc # <<>>
  /\ Error(exc[1]) = "Validation failed."
  /\ exc[1].Errors = 1
  /\ DOMAIN heap[1] = {"details"}
  /\ ret.op = "GetErrors" /\ RetView = heap[1]

\* C2: when the details map has no "message" key, NewInstance returns an
\* exception whose Error() is the default code's description and whose
\* GetErrors() holds exactly the pairs of the input map.
C2_DefaultMessage ==
  [][\A r \in Refs, c \in Codes, st \in Stacks :
       (CallNewInstance(r, c, st) /\ "message" \notin DOMAIN Contents(heap, r)) =>
         LET e == Last(exc')
         IN  /\ Error(e) = GetDescription(c)
             /\ Bag(heap', e) = Contents(heap, r)]_vars

C2_Witness ==
  /\ exc # <<>>
  /\ exc[1].StatusCode = NotFound
  /\ exc[1].Errors = 1
  /\ DOMAIN heap[1] = {"field", "details"}
  /\ ret.op = "Error" /\ ret.v = StrVal("Not Found")

\* C3 as stated: no constructed exception has a "message" key in GetErrors().
C3_NeverMessageKey ==
  \A i \in 1..Len(exc) : "message" \notin DOMAIN Bag(heap, exc[i])

\* C3 amended: NewInstance leaves a "message" key in GetErrors() exactly
\* when the input's "message" entry was an empty string or not a string,
\* and then the entry is the input's, unchanged.
C3_MessageKeyOnlyIfUnusable ==
  [][\A r \in Refs, c \in Codes, st \in Stacks :
       CallNewInstance(r, c, st) =>
         LET in == Contents(heap, r)
             out == Bag(heap', Last(exc'))
         IN  /\ "message" \in DOMAIN out <=>
                  ("message" \in DOMAIN in /\ ~Usable(in))
             /\ "message" \in DOMAIN out => out["message"] = in["message"]]_vars

C3_Witness ==
  /\ exc # <<>>
  /\ exc[1].Errors = 1
  /\ "message" \in DOMAIN heap[1]
  /\ heap[1]["message"] = StrVal("")
  /\ ret.op = "GetErrors" /\ "message" \in DOMAIN RetView

\* C4: the exception NewInstance builds never has an empty Message, whatever
\* the map (nil included) and the code: without a usable "message" entry the
\* Message is the code's registered description, or "Unknown Status Code"
\* for an unregistered code, and none of these is empty.
C4_MessageNeverEmpty ==
  [][\A r \in Refs, c \in Codes, st \in Stacks :
       CallNewInstance(r, c, st) =>
         LET e == Last(exc')
         IN  /\ Error(e) # ""
             /\ ~Usable(Contents(heap, r)) =>
                  Error(e) = IF c \in DOMAIN statusDescriptions
                             THEN statusDescriptions[c]
                             ELSE "Unknown Status Code"
             /\ \A d \in DOMAIN statusDescriptions : GetDescription(d) # ""]_vars

C4_Witness ==
  /\ exc # <<>>
  /\ exc[1].Errors = NilRef
  /\ exc[1].StatusCode \notin DOMAIN statusDescriptions
  /\ ret.op = "Error" /\ ret.v = StrVal("Unknown Status Code")

\* C5: a key of the detail bag equal to "status", "error_code" or "message"
\* carries the detail bag's value in the map Format() returns, not the
\* fixed field's value.
C5_DetailBagWins ==
  \A i \in 1..Len(exc) :
    LET bag == Bag(heap, exc[i])
        formatted == View(heap, Format(heap, exc[i]))
    IN  \A k \in FixedKeys \cap DOMAIN bag :
          k \in DOMAIN formatted /\ formatted[k] = bag[k]

\* details {"message": M, "status": "pending"} with code 400
C5_Witness ==
  /\ exc # <<>>
  /\ exc[1].StatusCode = BadRequest
  /\ Error(exc[1]) = "Validation failed."
  /\ DOMAIN Bag(heap, exc[1]) = {"status"}
  /\ ret.op = "Format"
  /\ RetView["status"] = StrVal("pending")
  /\ RetView["status"] # StrVal(ERROR)

C9_GetDetails ==
  \A i \in 1..Len(exc) :
    LET bag == Contents(heap, exc[i].Errors)
        details == GetDetails(heap, exc[i])
    IN  IF "details" \in DOMAIN bag /\ bag["details"].t = MapType
        THEN MapVal(details.ref) = bag["details"]
        ELSE details.ref = FreshRef /\ DOMAIN View(heap, details) = {}

C9_Witness ==
  /\ exc # <<>>
  /\ exc[1].Errors = 1
  /\ Index(heap[1], "details") = MapVal(2)
  /\ DOMAIN heap[2] = {"error"}
  /\ ret.op = "GetDetails" /\ ret.v = MapVal(2) /\ RetView = heap[2]

\* a second case of C9: "details" holds a map[string]string
C9_WitnessOtherType ==
  /\ exc # <<>>
  /\ exc[1].Errors = 1
  /\ Index(heap[1], "details") = StrMapVal
  /\ ret.op = "GetDetails" /\ ret.v.n = FreshRef /\ DOMAIN RetView = {}

\* C10: GetDetailsMessage() returns the string under "error" of the map
\* GetDetails() returns, and "" when there is no "details" key, "details"
\* is no map[string]interface{}, there is no "error" key, or "error" is no
\* string.
C10_GetDetailsMessage ==
  \A i \in 1..Len(exc) :
    LET bag == Contents(heap, exc[i].Errors)
        msg == GetDetailsMessage(heap, exc[i])
        nested == IF "details" \in DOMAIN bag /\ bag["details"].t = MapType
                  THEN Contents(heap, bag["details"].n)
                  ELSE EmptyMap
    IN  /\ nested = View(heap, GetDetails(heap, exc[i]))
        /\ IF "error" \in DOMAIN nested /\ nested["error"].t = StringType
           THEN msg = nested["error"].s
           ELSE msg = ""

C10_Witness ==
  /\ exc # <<>>
  /\ exc[1].Errors = 1
  /\ Index(heap[1], "details") = MapVal(2)
  /\ Index(heap[2], "error") = StrVal("email_format_error")
  /\ ret.op = "GetDetailsMessage" /\ ret.v = StrVal("email_format_error")

\* C15: constructing from an empty details mapping and a registered code
\* gives Error() = the code's description, an empty GetErrors(), an empty
\* GetDetails(), GetDetailsMessage() = "", a Format() result with exactly
\* the three fixed keys, and a non-empty stack trace.
C15_EmptyDetails ==
  [][\A r \in Refs, c \in Codes, st \in Stacks :
       (/\ CallNewInstance(r, c, st)
        /\ DOMAIN Contents(heap, r) = {}
        /\ c \in DOMAIN statusDescriptions) =>
         LET e == Last(exc')
         IN  /\ Error(e) = statusDescriptions[c]
             /\ DOMAIN Bag(heap', e) = {}
             /\ DOMAIN View(heap', GetDetails(heap', e)) = {}
             /\ GetDetailsMessage(heap', e) = ""
             /\ DOMAIN View(heap', Format(heap', e)) = FixedKeys
             /\ GetStackTrace(e) # ""]_vars

C15_Witness ==
  /\ exc # <<>>
  /\ exc[1].Errors = 1
  /\ heap[1] = EmptyMap
  /\ Error(exc[1]) = "Not Found"
  /\ exc[1].StackTrace # ""
  /\ ret.op = "Format"
  /\ DOMAIN RetView = FixedKeys

\* C16: no input makes NewInstance or an accessor fail; the bad inputs give
\* the defaults.  An unusable "message" (absent, not a string, empty, nil
\* map) gives the default code's description, "Unknown Status Code" for an
\* unregistered code; GetDetails() always returns a map, an empty one
\* unless "details" holds a map[string]interface{}, and then
\* GetDetailsMessage() is ""; a nil detail bag gives a nil GetErrors() and
\* the three fixed keys in Format().
C16_DegradesToDefaults ==
  [][/\ \A r \in Refs, c \in Codes, st \in Stacks :
          CallNewInstance(r, c, st) =>
            LET e == Last(exc')
            IN  /\ Len(exc') = Len(exc) + 1
                /\ GetStatusCode(e) = c
                /\ GetErrors(e).ref = r
                /\ ~Usable(Contents(heap, r)) =>
                     Error(e) = IF c \in DOMAIN statusDescriptions
                                THEN statusDescriptions[c]
                                ELSE "Unknown Status Code"
     /\ \A i \in 1..Len(exc') :
          LET e == exc'[i]
              bag == Contents(heap', e.Errors)
              details == GetDetails(heap', e)
          IN  /\ details.ref \in {FreshRef} \cup 0..Len(heap')
              /\ Index(bag, "details").t # MapType =>
                   /\ DOMAIN View(heap', details) = {}
                   /\ GetDetailsMessage(heap', e) = ""
              /\ e.Errors = NilRef =>
                   /\ DOMAIN View(heap', GetErrors(e)) = {}
                   /\ DOMAIN View(heap', Format(heap', e)) = FixedKeys
                   /\ View(heap', GetErrorsForLog(heap', e))["errors"] =
                        MapVal(NilRef)
     /\ \A i \in 1..Len(exc) :
          /\ ENABLED CallError(i) /\ ENABLED CallGetStatusCode(i)
          /\ ENABLED CallGetErrors(i) /\ ENABLED CallGetDetails(i)
          /\ ENABLED CallGetDetailsMessage(i)
          /\ ENABLED CallGetErrorsForLog(i)
          /\ ENABLED CallGetStackTrace(i) /\ ENABLED CallFormat(i)]_vars

\* a nil map and an unregistered code, read through GetDetails()
C16_Witness ==
  /\ exc # <<>>
  /\ exc[1].Errors = NilRef
  /\ exc[1].StatusCode = 999
  /\ Error(exc[1]) = "Unknown Status Code"
  /\ ret.op = "GetDetails" /\ ret.v.n = FreshRef /\ DOMAIN RetView = {}

\* "message" is not a string and "details" is not a mapping
C16_WitnessWrongTypes ==
  /\ exc # <<>>
  /\ exc[1].Errors = 1
  /\ DOMAIN heap[1] = {"message", "details"}
  /\ heap[1]["message"] = IntVal(7)
  /\ heap[1]["details"] = StrMapVal
  /\ ret.op = "GetDetailsMessage" /\ ret.v = StrVal("")

\* C17 as stated: NewInstance leaves the map it was given as it was.
C17_CallerMapUnchanged ==
  [][\A r \in Refs, c \in Codes, st \in Stacks :
       CallNewInstance(r, c, st) => heap' = heap]_vars

\* C17 amended: NewInstance changes nothing but the map it was given, and
\* there it only deletes a "message" entry that is a non-empty string; every
\* other entry, and the whole map when "message" is absent, empty or not a
\* string, is as before the call.
C17_OnlyMessageDeleted ==
  [][\A r \in Refs, c \in Codes, st \in Stacks :
       CallNewInstance(r, c, st) =>
         /\ Len(heap') = Len(heap)
         /\ UNCHANGED <<table, texts>>
         /\ \A q \in 1..Len(heap) :
              LET gone == IF q = r /\ Usable(heap[r]) THEN {"message"} ELSE {}
              IN  /\ DOMAIN heap'[q] = DOMAIN heap[q] \ gone
                  /\ \A k \in DOMAIN heap'[q] : heap'[q][k] = heap[q][k]]_vars

\* the caller's map after the call: its "message" is gone
C17_Witness ==
  /\ exc # <<>>
  /\ exc[1].Errors = 1
  /\ Error(exc[1]) = "Validation failed."
  /\ DOMAIN heap[1] = {"status"}
  /\ ret.op = "none"

\* C20: the stack trace is the string captured when NewInstance ran; no
\* later step changes it, and GetStackTrace() and
\* GetErrorsForLog()["stack_trace"] return that string at every call.
C20_StackTraceCapturedOnce ==
  [][/\ \A r \in Refs, c \in Codes, st \in Stacks :
          CallNewInstance(r, c, st) => GetStackTrace(Last(exc')) = st
     /\ \A i \in 1..Len(exc) :
          /\ GetStackTrace(exc'[i]) = GetStackTrace(exc[i])
          /\ exc'[i].StackTrace = exc[i].StackTrace
     /\ \A i \in 1..Len(exc') :
          /\ GetStackTrace(exc'[i]) = exc'[i].StackTrace
          /\ View(heap', GetErrorsForLog(heap', exc'[i]))["stack_trace"] =
               StrVal(exc'[i].StackTrace)]_vars

C20_Witness ==
  /\ exc # <<>>
  /\ exc[1].StackTrace = "goroutine 7 [running]:"
  /\ ret.op = "GetStackTrace"
  /\ ret.v = StrVal("goroutine 7 [running]:")

(* ---------------------- claims: who holds the maps -------------------- *)
\* the maps a write can reach from map r: r and the maps nested in it
RECURSIVE ReachN(_, _, _)
ReachN(h, r, n) ==
  IF r = NilRef \/ n = 0 THEN {}
  ELSE {r} \cup UNION {ReachN(h, h[r][k].n, n - 1) :
                         k \in {x \in DOMAIN h[r] : h[r][x].t = MapType}}
Reach(h, r) == ReachN(h, r, Len(h))

\* a value as a reader sees it: a map with the contents of its entries
RECURSIVE Deep(_, _, _)
Deep(h, v, n) ==
  IF v.t = MapType /\ n > 0
  THEN [t |-> MapType,
        m |-> [k \in DOMAIN Contents(h, v.n) |->
                 Deep(h, Contents(h, v.n)[k], n - 1)]]
  ELSE v
DeepMap(h, m) == [k \in DOMAIN m |-> Deep(h, m[k], Len(h) + 1)]

\* what the accessors that read the detail bag return for e
Views(h, e) ==
  [GetErrors |-> DeepMap(h, View(h, GetErrors(e))),
   GetDetails |-> DeepMap(h, View(h, GetDetails(h, e))),
   GetDetailsMessage |-> GetDetailsMessage(h, e),
   GetErrorsForLog |-> DeepMap(h, View(h, GetErrorsForLog(h, e))),
   Format |-> DeepMap(h, View(h, Format(h, e)))]

\* what e alone holds, and the entries of the log record made of it
Scalars(h, e) ==
  LET log == View(h, GetErrorsForLog(h, e))
  IN  <<Error(e), GetStatusCode(e), GetStackTrace(e),
        log["message"], log["status_code"], log["stack_trace"]>>

\* the step writes to a map a GetErrors or GetDetails call handed out
WritesReturned ==
  /\ ret.op \in {"GetErrors", "GetDetails"}
  /\ \/ \E k \in SharedKeys, v \in SharedValues : WriteReturned(k, v)
     \/ \E k \in SharedKeys : DeleteReturned(k)

\* the step is a write by a holder other than the exception: the caller
\* writes to a map it raised from, or a reader to a map it was handed
OtherHolderWrites ==
  \/ \E r \in Refs, k \in SharedKeys, v \in SharedValues :
       /\ WriteCaller(r, k, v)
       /\ \E i \in 1..Len(exc) : exc[i].Errors = r
  \/ WritesReturned

\* C18 as stated: no write by another holder changes what GetErrors,
\* GetDetails, GetDetailsMessage, GetErrorsForLog or Format return.
C18_OwnsExclusively ==
  [][OtherHolderWrites =>
       \A i \in 1..Len(exc) : Views(heap', exc'[i]) = Views(heap, exc[i])]_vars

\* C18 amended: the exception holds the very map it was constructed from.
\* A write by another holder changes neither Error(), GetStatusCode(),
\* GetStackTrace() nor the "message", "status_code" and "stack_trace"
\* entries of GetErrorsForLog(); a write of k = v to the map passed in, or
\* to the map GetErrors() returned, shows in GetErrors() and Format(), and
\* that map is the one under GetErrorsForLog()["errors"]; a write to the
\* map GetDetails() took from the bag shows in GetDetails() and, under
\* "error", in GetDetailsMessage().
C18_HoldsCallersMap ==
  [][/\ \A r \in Refs, st \in SharedStacks :
          (Raise(r, st) \/ CallNewBadFunctionCall(r, st)) =>
            GetErrors(Last(exc')).ref = r
     /\ OtherHolderWrites =>
          \A i \in 1..Len(exc) : Scalars(heap', exc'[i]) = Scalars(heap, exc[i])
     /\ \A r \in Refs, k \in SharedKeys, v \in SharedValues :
          WriteCaller(r, k, v) =>
            \A i \in 1..Len(exc) :
              exc[i].Errors = r =>
                /\ Index(View(heap', GetErrors(exc'[i])), k) = v
                /\ Index(View(heap', Format(heap', exc'[i])), k) = v
     /\ \A k \in SharedKeys, v \in SharedValues :
          (WriteReturned(k, v) /\ ret.v.n # FreshRef) =>
            /\ ret.op = "GetErrors" =>
                 /\ Index(View(heap', GetErrors(exc'[ret.e])), k) = v
                 /\ Index(View(heap', Format(heap', exc'[ret.e])), k) = v
                 /\ View(heap', GetErrorsForLog(heap', exc'[ret.e]))["errors"]
                      = MapVal(ret.v.n)
            /\ ret.op = "GetDetails" =>
                 /\ Index(View(heap', GetDetails(heap', exc'[ret.e])), k) = v
                 /\ k = "error" =>
                      GetDetailsMessage(heap', exc'[ret.e]) = v.s]_vars

\* the caller wrote to the map it raised from, and Format() shows it
C18_Witness ==
  /\ exc # <<>>
  /\ exc[1].Errors = 1
  /\ Error(exc[1]) = "Validation failed."
  /\ Index(heap[1], "error") = StrVal("changed")
  /\ ret.op = "Format" /\ ret.e = 1
  /\ Index(RetView, "error") = StrVal("changed")

\* the step writes to a map reachable through the detail bag of exc[i]
WritesThrough(i) ==
  \/ \E r \in Reach(heap, exc[i].Errors), k \in SharedKeys,
        v \in SharedValues : WriteCaller(r, k, v)
  \/ ret.e = i /\ ret.v.n \in 1..Len(heap) /\ WritesReturned

\* C19 as stated: a write reachable through one exception's detail bag
\* never changes a view the other returns.
C19_NoSharedState ==
  [][\A i, j \in 1..Len(exc) :
       (i # j /\ WritesThrough(i)) =>
         Views(heap', exc'[j]) = Views(heap, exc[j])]_vars

\* C19 amended: every constructor, NewBadFunctionCall's struct copy
\* included, leaves the exception holding the map it was given.  A write
\* reachable through one exception's detail bag never changes the other's
\* Error(), GetStatusCode() or GetStackTrace(), and changes none of its
\* views when the two bags have no map in common; two exceptions built
\* from the same map have the same detail bag after every such write.
C19_SharedOnlyThroughMaps ==
  [][/\ \A r \in Refs, st \in SharedStacks :
          (Raise(r, st) \/ CallNewBadFunctionCall(r, st)) =>
            /\ Last(exc').Errors = r
            /\ \A j \in 1..Len(exc) : exc'[j] = exc[j]
     /\ \A i, j \in 1..Len(exc) :
          (i # j /\ WritesThrough(i)) =>
            /\ Scalars(heap', exc'[j]) = Scalars(heap, exc[j])
            /\ Reach(heap, exc[i].Errors) \cap Reach(heap, exc[j].Errors) = {}
                 => Views(heap', exc'[j]) = Views(heap, exc[j])
            /\ exc[i].Errors = exc[j].Errors =>
                 Views(heap', exc'[j]).GetErrors =
                   Views(heap', exc'[i]).GetErrors]_vars

\* a NewInstance exception and a BadFunctionCall built from the same map:
\* a write through the first one's GetErrors() shows in the second
C19_Witness ==
  /\ Len(exc) = 2
  /\ exc[1].Errors = 1 /\ exc[2].Errors = 1
  /\ exc[1].StatusCode = NotFound /\ exc[2].StatusCode = BadRequest
  /\ ret.op = "GetErrors" /\ ret.e = 1
  /\ Index(Bag(heap, exc[2]), "error") = StrVal("changed")

\* two exceptions with no map in common, one of them written to
C19_WitnessApart ==
  /\ Len(exc) = 2
  /\ exc[1].Errors = 1 /\ exc[2].Errors = 3
  /\ Index(heap[1], "error") = StrVal("changed")
  /\ DOMAIN heap[3] = {"field"}

\* C21: every accessor is a pure read: a call of Error, GetStatusCode,
\* GetErrors, GetDetails, GetDetailsMessage, GetErrorsForLog, GetStackTrace
\* or Format changes neither the exception nor any map, so every accessor
\* returns after the call what it returned before it.
C21_AccessorsPure ==
  [][\A i \in 1..Len(exc) :
       (\/ CallError(i) \/ CallGetStatusCode(i) \/ CallGetErrors(i)
        \/ CallGetDetails(i) \/ CallGetDetailsMessage(i)
        \/ CallGetErrorsForLog(i) \/ CallGetStackTrace(i) \/ CallFormat(i)) =>
         /\ exc' = exc
         /\ heap' = heap
         /\ \A j \in 1..Len(exc) :
              /\ Views(heap', exc'[j]) = Views(heap, exc[j])
              /\ Scalars(heap', exc'[j]) = Scalars(heap, exc[j])]_vars

\* GetDetails() built an empty map, and the bag still has no "details"
C21_Witness ==
  /\ exc # <<>>
  /\ exc[1].Errors = 1
  /\ DOMAIN heap[1] = {"error", "field"}
  /\ ret.op = "GetDetails" /\ ret.e = 1
  /\ ret.v.n = FreshRef /\ DOMAIN RetView = {}

\* the default code the claim gives for each variant
C22_Code(x) ==
  CASE x \in {"BadFunctionCall", "BadMethodCall", "Domain", "InvalidArgument",
              "Length", "Logic", "OutOfRange", "RequestParseBody"} -> 400
    [] x \in {"Range", "OutOfBounds", "Overflow", "UnexpectedValue"} -> 422
    [] x \in {"Error", "Runtime", "Underflow"} -> 500

\* C22: every variant constructor gives the exception NewInstance gives for
\* the same map with the variant's code, 400, 422 or 500: the same code,
\* message, detail bag and stack trace, the same effect on the map, and so
\* the same accessor results.
C22_VariantsBindCode ==
  [][\A x \in Variants, r \in Refs, st \in Stacks :
       CallNewVariant(x, r, st) =>
         LET e == Last(exc')
             want == NewInstance(heap, r, C22_Code(x), st)
         IN  /\ GetStatusCode(e) = C22_Code(x)
             /\ Error(e) = IF Usable(Contents(heap, r))
                           THEN Contents(heap, r)["message"].s
                           ELSE statusDescriptions[C22_Code(x)]
             /\ e = want.exc
             /\ heap' = want.heap
             /\ Views(heap', e) = Views(want.heap, want.exc)
             /\ Scalars(heap', e) = Scalars(want.heap, want.exc)]_vars

\* a 422 variant raised with a message of its own
C22_Witness ==
  /\ exc # <<>>
  /\ exc[1].Errors = 1
  /\ Error(exc[1]) = "Validation failed."
  /\ ret.op = "GetStatusCode" /\ ret.v = IntVal(422)

\* a 500 variant raised from a map without a message
C22_WitnessDefault ==
  /\ exc # <<>>
  /\ exc[1].Errors = 2
  /\ Error(exc[1]) = "Internal Server Error"
  /\ ret.op = "Format"
  /\ RetView["error_code"] = IntVal(500)

(* ------------------------- claims: the registry ----------------------- *)
\* every integer the registry is asked about in the checks below
ProbeValues == ((0 - 1)..600) \cup {999}
Registered(v) == v \in DOMAIN statusDescriptions
\* what the three queries answer
Answers ==
  [texts |-> TextsView(table, GetStatusTexts),
   descriptions |-> [v \in ProbeValues |-> GetDescription(v)],
   codes |-> [v \in ProbeValues |-> NewStatusCode(v)]]

\* C11: a write, overwrite or deletion a caller performs on a map that
\* GetStatusTexts returned leaves the answers of GetStatusTexts,
\* GetDescription and NewStatusCode as they were before it.
C11_CopyIndependent ==
  [][(\E j \in 1..Len(texts), k \in WriteKeys :
        \/ DeleteStatusText(j, k)
        \/ \E text \in WriteTexts : WriteStatusText(j, k, text))
       => Answers' = Answers]_vars

\* the test: statusTexts[OK] = "Not OK", then GetStatusTexts() again
C11_Witness ==
  /\ Len(texts) = 2
  /\ {200, 999} \subseteq DOMAIN TextsView(table, texts[1])
  /\ TextsView(table, texts[1])[200] = "Not OK"
  /\ TextsView(table, texts[2]) = statusDescriptions
  /\ ret.op = "GetStatusTexts" /\ ret.e = 2

\* C12: NewStatusCode(v) is (v, true) for a registered v and (0, false) for
\* any other v; 0 is not registered, so a result with code 0 is never a
\* success, and a successful result has GetValue() = v.
C12_NewStatusCode ==
  /\ ~Registered(0)
  /\ \A v \in ProbeValues :
       LET res == NewStatusCode(v)
       IN  /\ Registered(v) => res = [code |-> v, ok |-> TRUE]
           /\ ~Registered(v) => res = [code |-> 0, ok |-> FALSE]
           /\ res.ok => GetValue(res.code) = v
           /\ res.code = 0 => ~res.ok

C12_Witness ==
  /\ ret.op = "NewStatusCode"
  /\ ret.e = 999
  /\ ret.v = IntVal(0)
  /\ ret.m = [ok |-> BoolVal(FALSE)]

\* a successful parse, second case of C12
C12_WitnessKnown ==
  /\ ret.op = "NewStatusCode"
  /\ ret.e = NotFound
  /\ ret.v = IntVal(404)
  /\ ret.m = [ok |-> BoolVal(TRUE)]

\* C13: GetDescription() is the registry's description for a registered
\* code and "Unknown Status Code" for any other; no registered description
\* equals that sentinel, so an unregistered integer never yields one.
C13_GetDescription ==
  /\ \A c \in DOMAIN statusDescriptions :
       statusDescriptions[c] # "Unknown Status Code"
  /\ \A v \in ProbeValues :
       /\ Registered(v) => GetDescription(v) = statusDescriptions[v]
       /\ ~Registered(v) =>
            /\ GetDescription(v) = "Unknown Status Code"
            /\ \A c \in DOMAIN statusDescriptions :
                 GetDescription(v) # statusDescriptions[c]

C13_Witness ==
  /\ ret.op = "GetDescription"
  /\ ret.v = StrVal("Unknown Status Code")

\* C14: GetStatusTexts() has 62 entries; an integer is one of its keys iff
\* NewStatusCode accepts it iff its GetDescription() is not the sentinel;
\* the text of every key is its GetDescription(); and the value of every
\* named StatusCode constant is a key.
C14_QueriesAgree ==
  LET all == TextsView(table, GetStatusTexts)
  IN  /\ Cardinality(DOMAIN all) = 62
      /\ \A v \in ProbeValues :
           /\ v \in DOMAIN all <=> NewStatusCode(v).ok
           /\ v \in DOMAIN all <=> GetDescription(v) # "Unknown Status Code"
           /\ v \in DOMAIN all => all[v] = GetDescription(v)
      /\ DOMAIN all \subseteq ProbeValues
      /\ StatusCodeConstants \subseteq DOMAIN all

C14_Witness ==
  /\ Len(texts) >= 1
  /\ Cardinality(DOMAIN TextsView(table, texts[1])) = 62
  /\ TextsView(table, texts[1]) = statusDescriptions
  /\ ret.op = "NewStatusCode" /\ ret.e = 306 /\ ret.m = [ok |-> BoolVal(FALSE)]

\* C23: the status table is read-only: in every interleaving of
\* GetDescription, NewStatusCode and GetStatusTexts calls with the callers'
\* writes to and deletes from the maps GetStatusTexts gave them, no step
\* changes the table, so every read finds the 62 entries it was
\* initialised with: a new GetStatusTexts() map has them all, and
\* GetDescription and NewStatusCode answer from them.
C23_TableReadOnly ==
  [][/\ table' = table
     /\ table' = statusDescriptions
     /\ Cardinality(DOMAIN table') = 62
     /\ CallGetStatusTexts =>
          TextsView(table', Last(texts')) = statusDescriptions
     /\ \A v \in CallValues :
          /\ CallGetDescription(v) =>
               ret'.v = StrVal(IF v \in DOMAIN statusDescriptions
                               THEN statusDescriptions[v]
                               ELSE "Unknown Status Code")
          /\ CallNewStatusCode(v) =>
               ret'.m.ok = BoolVal(v \in DOMAIN statusDescriptions)]_vars

\* two callers wrote to their maps, one added and one deleted, and a third
\* reads the description of the deleted key
C23_Witness ==
  /\ Len(texts) = 2
  /\ 999 \in DOMAIN TextsView(table, texts[1])
  /\ NotFound \notin DOMAIN TextsView(table, texts[2])
  /\ ret.op = "GetDescription"
  /\ ret.v = StrVal("Not Found")

(* -------------------- claims: the documented example ------------------ *)
\* the example's input: {"message": M, "details": D}, D a mapping
ReadmeInput(m) ==
  /\ DOMAIN m = {"message", "details"}
  /\ Usable(m)
  /\ m["details"].t = MapType

C26_StatusTransparent ==
  [][/\ SUCCESS = "success" /\ ERROR = "error"
     /\ \A v \in StatusValues :
          (CallNewStatus(v) \/ CallStatus(v)) =>
            /\ StatusGetValue(ret'.m.status) = v
            /\ v \notin {"success", "error"} =>
                 /\ ret'.m.status # Status(SUCCESS)
                 /\ ret'.m.status # Status(ERROR)
            /\ v = "success" => ret'.m.status = Status(SUCCESS)
            /\ v = "error" => ret'.m.status = Status(ERROR)
     /\ CallStatusGetValue => ret'.v = ret.v
     /\ \A c \in {SUCCESS, ERROR} :
          CallStatusEquals(c) => ret'.v = BoolVal(ret.v = StrVal(c))]_vars

\* the test: NewStatus("processing") has value "processing"
C26_Witness ==
  /\ ret.op = "Status.GetValue"
  /\ ret.m.of = StrVal("processing")
  /\ ret.v = StrVal("processing")

\* a near miss of ERROR is not ERROR
C26_WitnessNotEqual ==
  /\ ret.op = "Status.=="
  /\ ret.m.of = StrVal("ERROR")
  /\ ret.m.with = ERROR
  /\ ret.v = BoolVal(FALSE)

(* ------------------- claims: the message that stays ------------------- *)
\* C27: when the map has a "message" entry that is an empty string or not
\* a string, NewInstance sets Message to the default code's description and
\* leaves the entry in the detail bag; Format() then has the bag's value
\* under "message", not Error(), and GetErrorsForLog()["message"] is
\* Error().
C27_UnusableMessageStays ==
  [][\A r \in Refs, c \in Codes, st \in Stacks :
       (/\ CallNewInstance(r, c, st)
        /\ "message" \in DOMAIN Contents(heap, r)
        /\ ~Usable(Contents(heap, r))) =>
         LET e == Last(exc')
             entry == Contents(heap, r)["message"]
         IN  /\ Error(e) = IF c \in DOMAIN statusDescriptions
                           THEN statusDescriptions[c]
                           ELSE "Unknown Status Code"
             /\ Index(Bag(heap', e), "message") = entry
             /\ View(heap', Format(heap', e))["message"] = entry
             /\ View(heap', Format(heap', e))["message"] # StrVal(Error(e))
             /\ View(heap', GetErrorsForLog(heap', e))["message"] =
                  StrVal(Error(e))]_vars

\* "message" is 7: Format() reports 7 while Error() is "Bad Request"
C27_Witness ==
  /\ exc # <<>>
  /\ exc[1].Errors = 1
  /\ Error(exc[1]) = "Bad Request"
  /\ Index(heap[1], "message") = IntVal(7)
  /\ ret.op = "Format"
  /\ RetView["message"] = IntVal(7)

\* "message" is the empty string
C27_WitnessEmpty ==
  /\ exc # <<>>
  /\ exc[1].Errors = 1
  /\ Error(exc[1]) = "Not Found"
  /\ Index(heap[1], "message") = StrVal("")
  /\ ret.op = "GetErrorsForLog"
  /\ RetView["message"] = StrVal("Not Found")

(* ------------------ claims: one map, two exceptions ------------------- *)
\* the step constructs an exception with default code c from map r
Constructs(r, c) ==
  \E st \in SharedStacks :
    \/ c = NotFound /\ Raise(r, st)
    \/ c = BadRequest /\ CallNewBadFunctionCall(r, st)

\* C28: construction consumes the message of the map: the constructor
\* called with a map holding a non-empty string M under "message" gives
\* Error() = M and leaves the map without it, and a constructor called
\* next with that map gives Error() = its default code's description; the
\* two exceptions hold the same detail bag.
C28_MessageConsumedOnce ==
  [][\A r \in 1..Len(heap), c \in {NotFound, BadRequest} :
       Constructs(r, c) =>
         LET e == Last(exc')
         IN  /\ Usable(heap[r]) =>
                  /\ Error(e) = heap[r]["message"].s
                  /\ "message" \notin DOMAIN heap'[r]
             /\ \A i \in 1..Len(exc) :
                  (exc[i].Errors = r /\ Error(exc[i]) = "Validation failed.") =>
                    /\ Error(e) = statusDescriptions[c]
                    /\ GetErrors(e) = GetErrors(exc'[i])
                    /\ Bag(heap', e) = Bag(heap', exc'[i])
                    /\ Error(exc'[i]) = "Validation failed."]_vars

\* NewInstance, then NewBadFunctionCall, with the same map
C28_Witness ==
  /\ Len(exc) = 2
  /\ exc[1].Errors = 1 /\ exc[2].Errors = 1
  /\ Error(exc[1]) = "Validation failed."
  /\ exc[1].StatusCode = NotFound
  /\ Error(exc[2]) = "Bad Request"
  /\ DOMAIN heap[1] = {"details"}
  /\ ret.op = "none"

(* ---------------- claims: writes to the returned maps ----------------- *)
\* the step stores v under k in the detail bag of exc[ret.e], through the
\* map GetErrors() returned or through GetErrorsForLog()["errors"]
StoresThroughBag(k, v) ==
  \/ ret.op = "GetErrors" /\ WriteReturned(k, v)
  \/ ret.op = "GetErrorsForLog" /\ WriteNested("errors", k, v)

\* the step deletes k from that bag, through either of the two maps
DeletesThroughBag(k) ==
  \/ ret.op = "GetErrors" /\ DeleteReturned(k)
  \/ ret.op = "GetErrorsForLog" /\ DeleteNested("errors", k)

\* C29: GetErrors() returns the detail bag itself: after a key is added,
\* overwritten or deleted through the map GetErrors() returned, or through
\* GetErrorsForLog()["errors"], GetErrors(), GetErrorsForLog()["errors"],
\* Format() and, for the key "details", GetDetails() show the bag as
\* written, and every other entry as it was.
C29_SharedReference ==
  [][/\ \A k \in SharedKeys, v \in SharedValues :
          StoresThroughBag(k, v) =>
            LET e == exc'[ret.e]
                log == View(heap', GetErrorsForLog(heap', e))
            IN  /\ Index(View(heap', GetErrors(e)), k) = v
                /\ Index(View(heap', Format(heap', e)), k) = v
                /\ Index(Contents(heap', log["errors"].n), k) = v
                /\ \A x \in Keys \ {k} :
                     Index(Bag(heap', e), x) = Index(Bag(heap, e), x)
     /\ \A k \in ReturnedKeys :
          DeletesThroughBag(k) =>
            LET e == exc'[ret.e]
                log == View(heap', GetErrorsForLog(heap', e))
            IN  /\ k \notin DOMAIN View(heap', GetErrors(e))
                /\ k \notin DOMAIN View(heap', Format(heap', e))
                /\ k \notin DOMAIN Contents(heap', log["errors"].n)
                /\ k = "details" =>
                     /\ DOMAIN View(heap', GetDetails(heap', e)) = {}
                     /\ GetDetailsMessage(heap', e) = ""
                /\ \A x \in Keys \ {k} :
                     Index(Bag(heap', e), x) = Index(Bag(heap, e), x)]_vars

\* "error" was added to the bag through GetErrorsForLog()["errors"]
C29_Witness ==
  /\ exc # <<>>
  /\ exc[1].Errors = 1
  /\ ret.op = "GetErrorsForLog" /\ ret.e = 1
  /\ ret.m["errors"] = MapVal(1)
  /\ Index(heap[1], "error") = StrVal("changed")
  /\ Index(heap[2], "error") = StrVal("email_format_error")

\* "details" was deleted from the bag, and a later GetDetails() is empty
C29_WitnessDeleted ==
  /\ exc # <<>>
  /\ exc[1].Errors = 1
  /\ "details" \notin DOMAIN heap[1]
  /\ ret.op = "GetDetails" /\ ret.e = 1
  /\ ret.v.n = FreshRef /\ DOMAIN RetView = {}

\* the step writes to the top level of the map the last call returned
WritesTopLevel ==
  \/ \E k \in SharedKeys, v \in SharedValues : WriteReturned(k, v)
  \/ \E k \in ReturnedKeys : DeleteReturned(k)

\* C30: Format() and GetErrorsForLog() return a new map at every call, and
\* GetDetails() a new empty map when the bag has no "details" mapping: a
\* key added to, overwritten in or deleted from the top level of such a map
\* changes neither the exception nor its detail bag nor what any accessor
\* returns afterwards.
C30_FreshTopLevel ==
  [][/\ \A i \in 1..Len(exc) :
          /\ (CallFormat(i) \/ CallGetErrorsForLog(i)) => ret'.v.n = FreshRef
          /\ (CallGetDetails(i)
              /\ Index(Bag(heap, exc[i]), "details").t # MapType) =>
               ret'.v.n = FreshRef /\ DOMAIN ret'.m = {}
     /\ (/\ \/ ret.op \in {"Format", "GetErrorsForLog"}
            \/ ret.op = "GetDetails" /\ ret.v.n = FreshRef
         /\ WritesTopLevel) =>
          /\ heap' = heap
          /\ exc' = exc
          /\ \A j \in 1..Len(exc) :
               /\ Views(heap', exc'[j]) = Views(heap, exc[j])
               /\ Scalars(heap', exc'[j]) = Scalars(heap, exc[j])]_vars

\* "error" was overwritten in the map Format() returned; the bag has the
\* value it had
C30_Witness ==
  /\ exc # <<>>
  /\ exc[1].Errors = 2
  /\ ret.op = "Format" /\ ret.e = 1
  /\ Index(ret.m, "error") = StrVal("changed")
  /\ Index(heap[2], "error") = StrVal("email_format_error")

\* "error" was added to the empty map GetDetails() returned
C30_WitnessDetails ==
  /\ exc # <<>>
  /\ exc[1].Errors = 2
  /\ ret.op = "GetDetails" /\ ret.v.n = FreshRef
  /\ Index(ret.m, "error") = StrVal("changed")
  /\ DOMAIN View(heap, GetDetails(heap, exc[1])) = {}

====
